---- MODULE Spec2Model ----
(***************************************************************************)
(* Model of pylib/preferences.py (Polychromatic): the JSON documents kept  *)
(* under ~/.config/polychromatic, their validation against the default     *)
(* entries, and the migration between configuration versions.              *)
(*                                                                         *)
(* Python values are tagged records [t, v]; t is the Python type.  An      *)
(* operation that can raise returns a record with a field exc ("" when it  *)
(* returned normally, else the name of the exception that propagated).     *)
(***************************************************************************)
EXTENDS Integers, Sequences, FiniteSets, TLC

VARIABLES fs, last, pre, nops

vars == <<fs, last, pre, nops>>

(***************************************************************************)
(* Bounds of the model.                                                    *)
(***************************************************************************)
MaxOps == 1

MaxVersion == 8

(***************************************************************************)
(* Python / JSON values.  The tag t comes first in every value, so two     *)
(* values of different types differ by their tags.                         *)
(***************************************************************************)
PyStr(s) == [t |-> "str", v |-> s]

PyBool(b) == [t |-> "bool", v |-> b]

PyInt(n) == [t |-> "int", v |-> n]

PyList(s) == [t |-> "list", v |-> s]

PyDict(f) == [t |-> "dict", v |-> f]

EmptyDict == PyDict(<<>>)

PyNone == [t |-> "NoneType", v |-> 0]

(***************************************************************************)
(* Bind(x, F) is F(x) with x evaluated once: the value of a call is taken  *)
(* before the statements that follow use it.                               *)
(***************************************************************************)
Bind(x, F(_)) == CHOOSE r \in {F(a) : a \in {x}} : TRUE

\* d[k] = val on a dict
SetItem(d, k, val) ==
    PyDict([x \in (DOMAIN d.v) \cup {k} |-> IF x = k THEN val ELSE d.v[x]])

\* d[g][k] = val on a dict whose entry g is a dict
SetItem2(d, g, k, val) == SetItem(d, g, SetItem(d.v[g], k, val))

\* del-like restriction of a dict to the keys other than k
DelItem(d, k) == PyDict([x \in (DOMAIN d.v) \ {k} |-> d.v[x]])

\* one record {k1: v1}
Dict1(k1, v1) == PyDict([x \in {k1} |-> v1])

\* one record {k1: v1, k2: v2}
Dict2(k1, v1, k2, v2) == PyDict([x \in {k1, k2} |-> IF x = k1 THEN v1 ELSE v2])

\* the union of two dicts with disjoint keys
Merge(a, b) ==
    PyDict([x \in (DOMAIN a.v) \cup (DOMAIN b.v) |->
            IF x \in DOMAIN b.v THEN b.v[x] ELSE a.v[x]])

\* x[k] for a string key k: the value, or the exception Python raises
Index(x, k) ==
    IF x.t = "dict"
    THEN IF k \in DOMAIN x.v THEN [exc |-> "", val |-> x.v[k]]
                             ELSE [exc |-> "KeyError", val |-> PyNone]
    ELSE [exc |-> "TypeError", val |-> PyNone]

\* x[g][k]
Index2(x, g, k) ==
    LET a == Index(x, g)
    IN  IF a.exc # "" THEN a ELSE Index(a.val, k)

\* len(x)
Len_(x) ==
    IF x.t = "dict" THEN Cardinality(DOMAIN x.v)
    ELSE IF x.t \in {"list", "str"} THEN Len(x.v)
    ELSE 0

(***************************************************************************)
(* Module constants.                                                       *)
(***************************************************************************)
version == 7

preferences == "preferences.json"

colours == "colours.json"

old_devicestate == "devicestate.json"

Bak(p) == IF p = preferences THEN "preferences.json.bak" ELSE "colours.json.bak"

JsonPaths == {preferences, colours}

AllPaths == {preferences, colours, old_devicestate, Bak(preferences), Bak(colours)}

(***************************************************************************)
(* json.dumps(sort_keys=True) and json.load.  A text is what a file holds: *)
(* an object is the sequence of its <<key, text>> members in key order, an *)
(* array the sequence of its elements; anything else on disk is garbage.   *)
(***************************************************************************)
\* every key the documents use, in Python string order
KeyOrder ==
    << "1", "10", "2", "3", "4", "5", "6", "7", "8", "9", "activate_on_save", "col", "colours", "config_version",
       "editor", "effects", "force_legacy_gtk_status", "general", "hex",
       "icon", "landing_tab", "live_preview", "live_switch", "name",
       "primary", "secondary", "tray", "tray_icon", "type", "value" >>

SortedKeys(S) == SelectSeq(KeyOrder, LAMBDA k : k \in S)

RECURSIVE dumps(_)
dumps(x) ==
    CASE x.t = "dict" ->
            LET ks == SortedKeys(DOMAIN x.v)
            IN  [t |-> "obj", v |-> [i \in DOMAIN ks |-> <<ks[i], dumps(x.v[ks[i]])>>]]
      [] x.t = "list" ->
            [t |-> "arr", v |-> [i \in DOMAIN x.v |-> dumps(x.v[i])]]
      [] OTHER -> x

RECURSIVE loads(_)
loads(tx) ==
    CASE tx.t = "obj" ->
            LET ks == {tx.v[i][1] : i \in DOMAIN tx.v}
                at(k) == CHOOSE i \in DOMAIN tx.v :
                            /\ tx.v[i][1] = k
                            /\ \A j \in DOMAIN tx.v : tx.v[j][1] = k => j <= i
            IN  PyDict([k \in ks |-> loads(tx.v[at(k)][2])])
      [] tx.t = "arr" ->
            PyList([i \in DOMAIN tx.v |-> loads(tx.v[i])])
      [] OTHER -> tx

Absent == [t |-> "absent", v |-> 0]

\* a file that holds nothing (open(filepath, "w").close())
EmptyFile == [t |-> "garbage", v |-> "empty"]

Parseable(tx) == tx.t \notin {"absent", "garbage"}

(***************************************************************************)
(* The file system: c maps each path to what the file holds, ro is the set *)
(* of existing files the process may not write, dirs the set of existing   *)
(* configuration folders, locked whether the process may not write the     *)
(* folder of the files (it can then neither create nor rename a file; the  *)
(* steps that remove a file are only taken with the folder writable).      *)
(***************************************************************************)
Folders == {"root", "effects", "profiles", "cache", "device_images", "custom_icons"}

Exists(f, p) == f.c[p].t # "absent"

Remove(f, p) == [f EXCEPT !.c[p] = Absent, !.ro = f.ro \ {p}]

Rename(f, p, q) ==
    [f EXCEPT !.c  = [f.c EXCEPT ![q] = f.c[p], ![p] = Absent],
              !.ro = IF p \in f.ro THEN (f.ro \ {p}) \cup {q} ELSE f.ro \ {p, q}]

\* faulty variant of Write: the text never reaches the file
WriteNothing(f, p, tx) == f

Write(f, p, tx) == [f EXCEPT !.c[p] = tx]


(***************************************************************************)
(* save_file: the preferences file always receives the configuration       *)
(* version; newdata is mutated in place, so the caller sees the stamp.     *)
(***************************************************************************)
\* faulty variant of StampVersion: the version is not stored
StampNothing(filepath, newdata) == newdata

\* newdata["config_version"] = version, on the preferences path only
StampVersion(filepath, newdata) ==
    IF filepath = preferences
    THEN SetItem(newdata, "config_version", PyInt(version))
    ELSE newdata

\* os.access(filepath, os.W_OK)
Writable(f, filepath) == filepath \notin f.ro

\* open(filepath, "w") on a missing file creates it, or raises PermissionError
CanCreate(f, filepath) == Exists(f, filepath) \/ ~f.locked

SaveFile(f, filepath, newdata) ==
    IF filepath = preferences /\ newdata.t # "dict"
    THEN [fs |-> f, data |-> newdata, ret |-> PyNone, exc |-> "TypeError"]
    ELSE Bind(StampVersion(filepath, newdata), LAMBDA nd :
         LET f1 == IF ~Exists(f, filepath) THEN Write(f, filepath, EmptyFile) ELSE f
         IN  IF ~CanCreate(f, filepath)
             THEN \* open(filepath, "w") raises
                  [fs |-> f, data |-> nd, ret |-> PyNone, exc |-> "PermissionError"]
             ELSE IF Writable(f1, filepath)
             THEN [fs |-> Write(f1, filepath, dumps(nd)), data |-> nd,
                   ret |-> PyBool(TRUE), exc |-> ""]
             ELSE [fs |-> f1, data |-> nd, ret |-> PyBool(FALSE), exc |-> ""])

\* faulty variant of InitConfig: the unreadable file is overwritten, not renamed
InitConfigNoBackup(f, filepath) == SaveFile(f, filepath, EmptyDict).fs

(***************************************************************************)
(* init_config: back up an existing (unreadable) file, write a new one.    *)
(***************************************************************************)
InitConfig(f, filepath) ==
    IF Exists(f, filepath) /\ f.locked
    THEN \* os.rename raises; the handler only logs it
         f
    ELSE LET f1 == IF Exists(f, filepath) THEN Rename(f, filepath, Bak(filepath)) ELSE f
         IN  SaveFile(f1, filepath, EmptyDict).fs

(***************************************************************************)
(* load_file and its _validate.  A state of the load is [fs, data, exc].   *)
(***************************************************************************)
\* faulty variant of TypeMismatch: the type of a value is never looked at
NeverMismatch(val, data_type) == FALSE

\* type(data[group][item]) != data_type
TypeMismatch(val, data_type) == val.t # data_type

\* data[group][item] = default_value; save_file(path.preferences, data)
Repair(s, group, item, default_value) ==
    Bind(SaveFile(s.fs, preferences, SetItem2(s.data, group, item, default_value)),
         LAMBDA r : [fs |-> r.fs, data |-> r.data, exc |-> r.exc])

\* data[group], created empty when missing: [data, exc]
EnsureGroup(data, group) ==
    LET a == Index(data, group)
    IN  IF a.exc = "TypeError" THEN [data |-> data, exc |-> "TypeError"]
        ELSE IF a.exc = "KeyError"
             THEN [data |-> SetItem(data, group, EmptyDict), exc |-> ""]
        ELSE [data |-> data, exc |-> ""]

\* data[group][item], written with the default when missing
EnsureItem(s, group, item, default_value) ==
    LET b == Index2(s.data, group, item)
    IN  IF b.exc = "TypeError" THEN [s EXCEPT !.exc = "TypeError"]
        ELSE IF b.exc = "KeyError" THEN Repair(s, group, item, default_value)
        ELSE s

\* the value is replaced by the default when its type is not data_type
EnsureType(s, group, item, data_type, default_value) ==
    IF s.exc # "" THEN s
    ELSE IF TypeMismatch(s.data.v[group].v[item], data_type)
         THEN Repair(s, group, item, default_value)
         ELSE s

Validate(s0, group, item, data_type, default_value) ==
    Bind(s0, LAMBDA s :
        IF s.exc # "" THEN s
        ELSE Bind(EnsureGroup(s.data, group), LAMBDA g :
             IF g.exc # "" THEN [s EXCEPT !.exc = g.exc]
             ELSE Bind(EnsureItem([s EXCEPT !.data = g.data], group, item, default_value),
                       LAMBDA s2 : EnsureType(s2, group, item, data_type, default_value))))

\* the six _validate calls made for the preferences file
ValidatePreferences(s) ==
    Validate(
     Validate(
      Validate(
       Validate(
        Validate(
         Validate(s, "colours", "primary", "str", PyStr("#00FF00")),
         "colours", "secondary", "str", PyStr("#FF0000")),
        "effects", "live_preview", "bool", PyBool(TRUE)),
       "general", "landing_tab", "str", PyStr("devices")),
      "tray", "force_legacy_gtk_status", "bool", PyBool(FALSE)),
     "tray", "icon", "str", PyStr("ui/img/tray/light/polychromatic.svg"))

\* faulty variant of ReadOrCreate: every file is taken for unreadable
RecreateAlways(f, filepath) ==
    [fs |-> InitConfig(f, filepath), data |-> EmptyDict, exc |-> ""]

\* the file as read, or as created anew when absent or unreadable
ReadOrCreate(f, filepath) ==
    IF Exists(f, filepath) /\ Parseable(f.c[filepath])
    THEN [fs |-> f, data |-> loads(f.c[filepath]), exc |-> ""]
    ELSE [fs |-> InitConfig(f, filepath), data |-> EmptyDict, exc |-> ""]

LoadFile(f, filepath) ==
    IF filepath = preferences
    THEN ValidatePreferences(ReadOrCreate(f, filepath))
    ELSE ReadOrCreate(f, filepath)

(***************************************************************************)
(* set, get, exists.  Each returns [fs, ret, exc].                         *)
(***************************************************************************)
\* faulty variant of Coerce: the strings "true" and "false" stay strings
NoCoerce(value) == value

\* a boolean passed as the string "true" / "false" becomes a boolean
Coerce(value) ==
    IF value = PyStr("true") THEN PyBool(TRUE)
    ELSE IF value = PyStr("false") THEN PyBool(FALSE)
    ELSE value

Set(f, group, item, value, filepath) ==
    Bind(LoadFile(f, filepath), LAMBDA l :
        IF l.exc # "" THEN [fs |-> l.fs, ret |-> PyNone, exc |-> l.exc]
        ELSE
        LET val == Coerce(value)
            a   == Index(l.data, group)
        IN  IF a.exc # "" /\ l.data.t # "dict"
            THEN \* data[group] = {} on a list or a scalar
                 [fs |-> l.fs, ret |-> PyNone, exc |-> "TypeError"]
            ELSE
            LET d1 == IF a.exc # "" THEN SetItem(l.data, group, EmptyDict) ELSE l.data
            IN  IF d1.v[group].t = "dict"
                THEN [fs |-> SaveFile(l.fs, filepath, SetItem2(d1, group, item, val)).fs,
                      ret |-> PyNone, exc |-> ""]
                ELSE \* the item assignment raises; the handler only logs it
                     [fs |-> l.fs, ret |-> PyNone, exc |-> ""])

\* faulty variant of Get: the supplied default is returned for a missing entry
GetOrDefault(f, group, item, default_value, filepath) ==
    Bind(LoadFile(f, filepath), LAMBDA l :
        IF l.exc # "" THEN [fs |-> l.fs, ret |-> PyNone, exc |-> l.exc]
        ELSE LET a == Index2(l.data, group, item)
             IN  [fs |-> l.fs, ret |-> IF a.exc = "" THEN a.val ELSE default_value,
                  exc |-> ""])

Get(f, group, item, default_value, filepath) ==
    Bind(LoadFile(f, filepath), LAMBDA l :
        IF l.exc # "" THEN [fs |-> l.fs, ret |-> PyNone, exc |-> l.exc]
        ELSE LET a == Index2(l.data, group, item)
             IN  [fs |-> l.fs, ret |-> a.val, exc |-> a.exc])

ExistsPref(f, group, item, filepath) ==
    Bind(LoadFile(f, filepath), LAMBDA l :
        IF l.exc # "" THEN [fs |-> l.fs, ret |-> PyNone, exc |-> l.exc]
        ELSE [fs |-> l.fs, ret |-> PyBool(Index2(l.data, group, item).exc = ""),
              exc |-> ""])

(***************************************************************************)
(* Helpers of the common module used by the migration.                     *)
(***************************************************************************)
\* common.get_path_from_gtk_icon_name
GetPathFromGtkIconName(name) ==
    IF name.t = "str" THEN PyStr("/usr/share/icons/" \o name.v \o ".svg") ELSE PyNone

HexDigits == <<"0", "1", "2", "3", "4", "5", "6", "7", "8", "9",
               "A", "B", "C", "D", "E", "F">>

Hex2(n) == HexDigits[(n \div 16) + 1] \o HexDigits[(n % 16) + 1]

\* common.rgb_to_hex
RgbToHex(col) == PyStr("#" \o Hex2(col.v[1].v) \o Hex2(col.v[2].v) \o Hex2(col.v[3].v))

(***************************************************************************)
(* upgrade_old_pref.  Each step returns [fs, exc].                         *)
(***************************************************************************)
DecimalStrings == <<"0", "1", "2", "3", "4", "5", "6", "7", "8", "9", "10">>

\* int(x): [ok, n]; ok is FALSE when int() raises
ToInt(val) ==
    CASE val.t = "int"  -> [ok |-> TRUE, n |-> val.v]
      [] val.t = "bool" -> [ok |-> TRUE, n |-> IF val.v THEN 1 ELSE 0]
      [] val.t = "str"  ->
            IF \E i \in DOMAIN DecimalStrings : DecimalStrings[i] = val.v
            THEN [ok |-> TRUE,
                  n |-> (CHOOSE i \in DOMAIN DecimalStrings : DecimalStrings[i] = val.v) - 1]
            ELSE [ok |-> FALSE, n |-> 0]
      [] OTHER -> [ok |-> FALSE, n |-> 0]

\* the try block that reads config_version; ok is FALSE when it raises
StoredVersion(f) ==
    IF ~(Exists(f, preferences) /\ Parseable(f.c[preferences]))
    THEN [ok |-> FALSE, n |-> 0]
    ELSE LET a == Index(loads(f.c[preferences]), "config_version")
         IN  IF a.exc # "" THEN [ok |-> FALSE, n |-> 0] ELSE ToInt(a.val)

\* faulty variant of UpToDate: an older configuration counts as up to date
UpToDateOrOlder(config_version) == config_version <= version

UpToDate(config_version) == version = config_version

\* faulty variant of Newer: no configuration counts as newer
NeverNewer(config_version) == FALSE

Newer(config_version) == config_version > version

NeedsCleanEditor(config_version) == config_version < 5

\* faulty variant of IsDevConfig: the development configuration is not recognised
NeverDevConfig(config_version) == FALSE

IsDevConfig(config_version) == config_version = 6

NeedsNewKeys(config_version) == config_version < 7

\* one round of the loop over the editor keys
CleanEditorKey(data, key) ==
    LET a == Index2(data, "editor", key)
    IN  IF a.exc = "" /\ a.val.t = "str"
        THEN SetItem2(data, "editor", key, PyBool(a.val.v \in {"true", "True"}))
        ELSE data

CleanEditor(data) ==
    CleanEditorKey(CleanEditorKey(CleanEditorKey(data, "activate_on_save"),
                                  "live_switch"), "live_preview")

\* v0.3.12: config_version < 5
StepCleanEditor(f) ==
    Bind(LoadFile(f, preferences), LAMBDA l :
        IF l.exc # "" THEN [fs |-> l.fs, exc |-> l.exc]
        ELSE [fs |-> SaveFile(l.fs, preferences, CleanEditor(l.data)).fs, exc |-> ""])

RemoveIfExists(f, p) == IF Exists(f, p) THEN Remove(f, p) ELSE f

\* v0.4.0 (dev): config_version == 6
StepReset(f) ==
    RemoveIfExists(RemoveIfExists(RemoveIfExists(f, preferences), colours),
                   old_devicestate)

BuiltinIcons ==
    [k \in {"0", "1", "2", "3", "4"} |->
        CASE k = "0" -> "ui/img/tray/light/humanity.svg"
          [] k = "1" -> "ui/img/tray/dark/humanity.svg"
          [] k = "2" -> "ui/img/tray/animated/chroma.gif"
          [] k = "3" -> "ui/img/tray/light/breeze.svg"
          [] k = "4" -> "ui/img/tray/dark/breeze.svg"]

\* the new tray icon: [exc, val]
NewTrayValue(old_data) ==
    LET ty == Index2(old_data, "tray_icon", "type")
        va == Index2(old_data, "tray_icon", "value")
        discard == [exc |-> "", val |-> PyStr("")]
    IN  IF ty.exc = "TypeError" THEN [exc |-> "TypeError", val |-> PyStr("")]
        ELSE IF ty.exc = "KeyError" THEN discard
        ELSE IF ty.val = PyStr("gtk")
             THEN IF va.exc # "" THEN discard
                  ELSE [exc |-> "", val |-> GetPathFromGtkIconName(va.val)]
        ELSE IF ty.val = PyStr("custom")
             THEN IF va.exc # "" THEN discard ELSE [exc |-> "", val |-> va.val]
        ELSE IF ty.val = PyStr("builtin")
             THEN IF va.exc # "" THEN discard
                  ELSE IF va.val.t \in {"list", "dict"}
                       THEN [exc |-> "TypeError", val |-> PyStr("")]
                  ELSE IF va.val.t = "str" /\ va.val.v \in DOMAIN BuiltinIcons
                       THEN [exc |-> "", val |-> PyStr(BuiltinIcons[va.val.v])]
                  ELSE discard
        ELSE discard

\* faulty variant of OldLivePreview: the legacy value is not carried over
NoLivePreview(old_data) == [exc |-> "", val |-> PyBool(FALSE)]

\* old_data["editor"]["live_preview"], False when absent: [exc, val]
OldLivePreview(old_data) ==
    LET a == Index2(old_data, "editor", "live_preview")
    IN  IF a.exc = "KeyError" THEN [exc |-> "", val |-> PyBool(FALSE)] ELSE a

NewData(old_live_preview, new_tray_value) ==
    PyDict([g \in {"colours", "effects", "tray"} |->
        CASE g = "colours" -> Dict2("primary", PyStr("#00FF00"),
                                    "secondary", PyStr("#00FFFF"))
          [] g = "effects" -> Dict1("live_preview", old_live_preview)
          [] g = "tray"    -> Dict2("force_legacy_gtk_status", PyBool(FALSE),
                                    "icon", new_tray_value)])

\* faulty variant of StepNewKeys: the new groups are added to the old document
StepNewKeysKeepOld(f) ==
    Bind(LoadFile(f, preferences), LAMBDA l :
        LET tv == NewTrayValue(l.data)
            lp == OldLivePreview(l.data)
        IN  IF l.exc # "" THEN [fs |-> l.fs, exc |-> l.exc]
            ELSE IF tv.exc # "" THEN [fs |-> l.fs, exc |-> tv.exc]
            ELSE IF lp.exc # "" THEN [fs |-> l.fs, exc |-> lp.exc]
            ELSE Bind(SaveFile(Remove(l.fs, preferences), preferences,
                               Merge(l.data, NewData(lp.val, tv.val))).fs,
                      LAMBDA f2 : [fs |-> RemoveIfExists(f2, old_devicestate), exc |-> ""]))

\* v1.0.0 (dev): config_version < 7, the preferences and the device state
StepNewKeys(f) ==
    Bind(LoadFile(f, preferences), LAMBDA l :
        LET tv == NewTrayValue(l.data)
            lp == OldLivePreview(l.data)
        IN  IF l.exc # "" THEN [fs |-> l.fs, exc |-> l.exc]
            ELSE IF tv.exc # "" THEN [fs |-> l.fs, exc |-> tv.exc]
            ELSE IF lp.exc # "" THEN [fs |-> l.fs, exc |-> lp.exc]
            ELSE Bind(SaveFile(Remove(l.fs, preferences), preferences,
                               NewData(lp.val, tv.val)).fs,
                      LAMBDA f2 : [fs |-> RemoveIfExists(f2, old_devicestate), exc |-> ""]))

Colour(name, r, g, b) ==
    Dict2("name", PyStr(name), "col", PyList(<<PyInt(r), PyInt(g), PyInt(b)>>))

old_colour_json ==
    PyDict([k \in {"1", "2", "3", "4", "5", "6", "7", "8", "9"} |->
        CASE k = "1" -> Colour("White", 255, 255, 255)
          [] k = "2" -> Colour("Red", 255, 0, 0)
          [] k = "3" -> Colour("Orange", 255, 165, 0)
          [] k = "4" -> Colour("Yellow", 255, 255, 0)
          [] k = "5" -> Colour("Signature Green", 0, 255, 0)
          [] k = "6" -> Colour("Aqua", 0, 255, 255)
          [] k = "7" -> Colour("Blue", 0, 0, 255)
          [] k = "8" -> Colour("Purple", 128, 0, 128)
          [] k = "9" -> Colour("Pink", 255, 0, 255)])

\* a legacy entry the conversion can read: a name and a list of three integers
GoodEntry(e) ==
    /\ Index(e, "name").exc = ""
    /\ Index(e, "col").exc = ""
    /\ e.v["col"].t = "list"
    /\ Len(e.v["col"].v) = 3
    /\ \A i \in 1..3 : e.v["col"].v[i].t = "int"

\* the list built from the legacy mapping, in the order of the sorted ids
NewColours(old_colours) ==
    LET old_ids == SortedKeys(DOMAIN old_colours.v)
    IN  PyList([i \in DOMAIN old_ids |->
            Dict2("name", old_colours.v[old_ids[i]].v["name"],
                  "hex", RgbToHex(old_colours.v[old_ids[i]].v["col"]))])

\* faulty variant of StepColours: the new list is saved whatever the old type
StepColoursSaveAlways(f) ==
    Bind(LoadFile(f, colours), LAMBDA l :
        IF l.data = old_colour_json THEN [fs |-> Remove(l.fs, colours), exc |-> ""]
        ELSE IF l.data.t = "list"
             THEN [fs |-> SaveFile(l.fs, colours, PyList(<<>>)).fs, exc |-> ""]
        ELSE IF l.data.t # "dict" THEN [fs |-> l.fs, exc |-> "AttributeError"]
        ELSE IF \E k \in DOMAIN l.data.v : ~GoodEntry(l.data.v[k])
             THEN [fs |-> l.fs, exc |-> "Exception"]
        ELSE [fs |-> SaveFile(l.fs, colours, NewColours(l.data)).fs, exc |-> ""])

\* v1.0.0 (dev): config_version < 7, the colours
StepColours(f) ==
    Bind(LoadFile(f, colours), LAMBDA l :
        IF l.data = old_colour_json THEN [fs |-> Remove(l.fs, colours), exc |-> ""]
        ELSE IF l.data.t = "list" THEN [fs |-> l.fs, exc |-> ""]
        ELSE IF l.data.t # "dict" THEN [fs |-> l.fs, exc |-> "AttributeError"]
        ELSE IF \E k \in DOMAIN l.data.v : ~GoodEntry(l.data.v[k])
             THEN [fs |-> l.fs, exc |-> "Exception"]
        ELSE [fs |-> SaveFile(l.fs, colours, NewColours(l.data)).fs, exc |-> ""])

\* Write new version number.
StepStamp(f) ==
    Bind(LoadFile(f, preferences), LAMBDA l :
        IF l.exc # "" THEN [fs |-> l.fs, exc |-> l.exc]
        ELSE [fs |-> SaveFile(l.fs, preferences,
                              SetItem(l.data, "config_version", PyInt(version))).fs,
              exc |-> ""])

\* the steps a configuration older than the current one goes through
Migrate(f, config_version) ==
    Bind(IF NeedsCleanEditor(config_version) THEN StepCleanEditor(f)
                                             ELSE [fs |-> f, exc |-> ""],
         LAMBDA a :
    IF a.exc # "" THEN [fs |-> a.fs, exc |-> a.exc, branch |-> "raised"]
    ELSE IF IsDevConfig(config_version)
         THEN [fs |-> StepReset(a.fs), exc |-> "", branch |-> "reset"]
    ELSE
    Bind(IF NeedsNewKeys(config_version) THEN StepNewKeys(a.fs) ELSE a, LAMBDA b :
    Bind(IF NeedsNewKeys(config_version) /\ b.exc = "" THEN StepColours(b.fs) ELSE b,
         LAMBDA c :
    Bind(IF c.exc = "" THEN StepStamp(c.fs) ELSE c, LAMBDA d :
        [fs |-> d.fs, exc |-> d.exc,
         branch |-> IF d.exc = "" THEN "migrated" ELSE "raised"]))))

\* upgrade_old_pref: [fs, exc, branch]
UpgradeOldPref(f) ==
    Bind(StoredVersion(f), LAMBDA sv :
        IF ~sv.ok THEN [fs |-> f, exc |-> "", branch |-> "unreadable"]
        ELSE IF UpToDate(sv.n) THEN [fs |-> f, exc |-> "", branch |-> "uptodate"]
        ELSE IF Newer(sv.n) THEN [fs |-> f, exc |-> "", branch |-> "newer"]
        ELSE Migrate(f, sv.n))

(***************************************************************************)
(* start_initalization: [fs, exc].                                         *)
(***************************************************************************)
DefaultColour(name, hex) == Dict2("name", PyStr(name), "hex", PyStr(hex))

default_data ==
    PyList(<< DefaultColour("White", "#FFFFFF"), DefaultColour("Red", "#FF0000"),
              DefaultColour("Green", "#00FF00"), DefaultColour("Blue", "#0000FF"),
              DefaultColour("Aqua", "#00FFFF"), DefaultColour("Orange", "#FFA500"),
              DefaultColour("Pink", "#FF00FF"), DefaultColour("Purple", "#8000FF"),
              DefaultColour("Yellow", "#FFFF00"), DefaultColour("Light Grey", "#C0C0C0"),
              DefaultColour("Dark Grey", "#7F7F7F"), DefaultColour("Black", "#000000") >>)

\* the folders exist afterwards
MakeFolders(f) == [f EXCEPT !.dirs = Folders]

\* faulty variant of NearlyEmpty: a document of five keys counts as empty
NearlyEmptyWide(data) == Len_(data) <= 5

\* len(data) <= 2
NearlyEmpty(data) == Len_(data) <= 2

\* Create preferences if non-existent.
CreatePreferences(f) ==
    IF ~Exists(f, preferences) THEN InitConfig(f, preferences) ELSE f

\* Default Preferences: [fs, exc]
DefaultPreferences(f) ==
    Bind(LoadFile(f, preferences), LAMBDA l :
        IF l.exc # "" THEN [fs |-> l.fs, exc |-> l.exc]
        ELSE IF NearlyEmpty(l.data)
             THEN [fs |-> SaveFile(l.fs, preferences, EmptyDict).fs, exc |-> ""]
             ELSE [fs |-> l.fs, exc |-> ""])

\* Default Colours: [fs, exc]
DefaultColours(f) ==
    Bind(LoadFile(f, colours), LAMBDA c :
        IF c.data.t \notin {"dict", "list", "str"}
        THEN [fs |-> c.fs, exc |-> "TypeError"]
        ELSE IF NearlyEmpty(c.data)
             THEN [fs |-> SaveFile(c.fs, colours, default_data).fs, exc |-> ""]
             ELSE [fs |-> c.fs, exc |-> ""])

StartInitalization(f) ==
    Bind(CreatePreferences(MakeFolders(f)), LAMBDA f1 :
    Bind(UpgradeOldPref(f1), LAMBDA u :
        IF u.exc # "" THEN [fs |-> u.fs, exc |-> u.exc]
        ELSE Bind(DefaultPreferences(u.fs), LAMBDA p :
             IF p.exc # "" THEN p ELSE DefaultColours(p.fs))))

(***************************************************************************)
(* The documents found on disk when the module is used.                    *)
(***************************************************************************)
Versions == 4..MaxVersion

\* the six default entries present with values of the right type
ValidEntries ==
    PyDict([g \in {"colours", "effects", "general", "tray"} |->
        CASE g = "colours" -> Dict2("primary", PyStr("#123456"),
                                    "secondary", PyStr("#0000FF"))
          [] g = "effects" -> Dict1("live_preview", PyBool(FALSE))
          [] g = "general" -> Dict1("landing_tab", PyStr("effects"))
          [] g = "tray"    -> Dict2("force_legacy_gtk_status", PyBool(TRUE),
                                    "icon", PyStr("a.svg"))])

\* a wrong type, a missing key and a missing group among the default entries
BrokenEntries ==
    PyDict([g \in {"colours", "effects", "tray"} |->
        CASE g = "colours" -> Dict2("primary", PyInt(5), "secondary", PyStr("#0000FF"))
          [] g = "effects" -> EmptyDict
          [] g = "tray"    -> Dict2("force_legacy_gtk_status", PyBool(TRUE),
                                    "icon", PyBool(TRUE))])

EntryChoices == {EmptyDict, ValidEntries, BrokenEntries}

TrayIcon(type, value) == Dict2("type", PyStr(type), "value", value)

\* the groups of the configuration versions before 7
LegacyChoices ==
    { EmptyDict,
      Dict1("editor", Dict1("live_preview", PyStr("true"))),
      PyDict([g \in {"editor", "tray_icon"} |->
          IF g = "editor"
          THEN PyDict([k \in {"activate_on_save", "live_switch", "live_preview"} |->
                  CASE k = "activate_on_save" -> PyBool(FALSE)
                    [] k = "live_switch" -> PyStr("True")
                    [] k = "live_preview" -> PyStr("x")])
          ELSE TrayIcon("builtin", PyStr("1"))]),
      Dict2("editor", Dict1("live_preview", PyBool(TRUE)),
            "tray_icon", TrayIcon("custom", PyStr("my.png"))),
      Dict1("tray_icon", TrayIcon("gtk", PyStr("keyboard"))) }

VersionChoices == {EmptyDict} \cup {Dict1("config_version", PyInt(n)) : n \in Versions}

\* a document has default entries, legacy groups, or some of each
BodyChoices ==
    EntryChoices \cup LegacyChoices \cup
    { Merge(ValidEntries, Dict1("editor", Dict1("live_preview", PyStr("true")))),
      Merge(BrokenEntries, Dict1("tray_icon", TrayIcon("gtk", PyStr("keyboard")))) }

\* documents whose groups are all mappings
RegularPreferences == {Merge(b, c) : b \in BodyChoices, c \in VersionChoices}

\* parseable documents in which a group, or the document, is no mapping
IrregularPreferences ==
    { PyList(<<>>),
      Dict2("colours", PyStr("x"), "config_version", PyInt(7)),
      Dict2("tray_icon", PyStr("x"), "config_version", PyInt(5)),
      Dict2("editor", PyStr("x"), "config_version", PyInt(4)) }

Garbage == [t |-> "garbage", v |-> "junk"]

PreferencesFiles ==
    {Absent, Garbage} \cup {dumps(d) : d \in RegularPreferences \cup IrregularPreferences}

ColoursChoices ==
    { old_colour_json,
      Dict2("2", Colour("Red", 255, 0, 0), "10", Colour("Teal", 0, 128, 128)),
      PyList(<<DefaultColour("White", "#FFFFFF"), DefaultColour("Red", "#FF0000")>>),
      default_data }

ColoursFiles == {Absent, Garbage} \cup {dumps(d) : d \in ColoursChoices}

Disk(p, c, d, pb, cb) ==
    [c |-> [x \in AllPaths |->
                CASE x = preferences -> p
                  [] x = colours -> c
                  [] x = old_devicestate -> d
                  [] x = Bak(preferences) -> pb
                  [] x = Bak(colours) -> cb],
     ro |-> {}, dirs |-> Folders, locked |-> FALSE]

\* nothing on disk yet: the first start on this account
FreshDisk ==
    [c |-> [x \in AllPaths |-> Absent], ro |-> {}, dirs |-> {}, locked |-> FALSE]

\* what an earlier recovery left at a .bak path
OlderBackup == [t |-> "garbage", v |-> "older junk"]

\* the colours files found beside a legacy device state and older backups
LegacyColoursFiles == {Garbage, dumps(old_colour_json)}

\* the first start, the files without device state and backups, and the
\* files of an old installation with them
InitDisks ==
    {FreshDisk} \cup
    {Disk(p, c, Absent, Absent, Absent) : p \in PreferencesFiles, c \in ColoursFiles} \cup
    {Disk(p, c, dumps(EmptyDict), OlderBackup, OlderBackup) :
        p \in PreferencesFiles, c \in LegacyColoursFiles}

(***************************************************************************)
(* The state machine: fs is the disk, last the call made last (what was    *)
(* called, with what, what it returned or raised), pre the disk before it. *)
(***************************************************************************)
Call(op, path, g, k, val, ret, exc, branch) ==
    [op |-> op, path |-> path, g |-> g, k |-> k, val |-> val,
     ret |-> ret, exc |-> exc, branch |-> branch]

NoCall == Call("", "", "", "", PyNone, PyNone, "", "")

Init ==
    /\ fs \in InitDisks
    /\ last = NoCall
    /\ pre = fs
    /\ nops = 0

\* the module has been imported: the folders exist
Imported == "root" \in fs.dirs

\* a call can be made: the module has been imported and the run goes on
CanCall == nops < MaxOps /\ Imported

Step(r, call) ==
    /\ nops' = nops + 1
    /\ pre' = fs
    /\ fs' = r.fs
    /\ last' = call

SavedDocs ==
    { EmptyDict,
      Merge(Dict1("tray", Dict1("icon", PyStr("b.svg"))), Dict1("config_version", PyInt(4))),
      PyList(<<DefaultColour("White", "#FFFFFF")>>) }

\* <<filepath, group, item>> of the calls of get and exists
Coordinates ==
    { <<preferences, "tray", "icon">>, <<preferences, "editor", "live_preview">>,
      <<preferences, "config_version", "icon">>, <<colours, "tray", "icon">> }

\* <<filepath, group, item, value>> of the calls of set
Settings ==
    { <<preferences, "tray", "icon", PyStr("true")>>,
      <<preferences, "tray", "icon", PyStr("b.svg")>>,
      <<preferences, "editor", "live_preview", PyStr("false")>>,
      <<preferences, "editor", "live_preview", PyInt(1)>>,
      <<preferences, "config_version", "icon", PyStr("b.svg")>>,
      <<colours, "tray", "icon", PyStr("true")>> }

load_file ==
    /\ CanCall
    /\ \E p \in JsonPaths :
           \E r \in {LoadFile(fs, p)} :
               Step(r, Call("load_file", p, "", "", PyNone,
                            IF r.exc = "" THEN r.data ELSE PyNone, r.exc, ""))

save_file ==
    /\ CanCall
    /\ \E p \in JsonPaths, d \in SavedDocs :
           \E r \in {SaveFile(fs, p, d)} :
               Step(r, Call("save_file", p, "", "", d, r.ret, r.exc, ""))

set ==
    /\ CanCall
    /\ \E a \in Settings :
           \E r \in {Set(fs, a[2], a[3], a[4], a[1])} :
               Step(r, Call("set", a[1], a[2], a[3], a[4], r.ret, r.exc, ""))

get ==
    /\ CanCall
    /\ \E a \in Coordinates :
           \E r \in {Get(fs, a[2], a[3], PyStr(""), a[1])} :
               Step(r, Call("get", a[1], a[2], a[3], PyNone, r.ret, r.exc, ""))

exists ==
    /\ CanCall
    /\ \E a \in Coordinates :
           \E r \in {ExistsPref(fs, a[2], a[3], a[1])} :
               Step(r, Call("exists", a[1], a[2], a[3], PyNone, r.ret, r.exc, ""))

init_config ==
    /\ CanCall
    /\ \E p \in JsonPaths :
           \E r \in {[fs |-> InitConfig(fs, p)]} :
               Step(r, Call("init_config", p, "", "", PyNone, PyNone, "", ""))

upgrade_old_pref ==
    /\ CanCall
    /\ \E r \in {UpgradeOldPref(fs)} :
           Step(r, Call("upgrade_old_pref", preferences, "", "", PyNone, PyNone,
                        r.exc, r.branch))

\* the import of the module
start_initalization ==
    /\ nops < MaxOps
    /\ \E r \in {StartInitalization(fs)} :
           Step(r, Call("start_initalization", preferences, "", "", PyNone, PyNone,
                        r.exc, ""))

Next ==
    \/ load_file
    \/ save_file
    \/ set
    \/ get
    \/ exists
    \/ init_config
    \/ upgrade_old_pref
    \/ start_initalization

Spec == Init /\ [][Next]_vars

(***************************************************************************)
(* The module used on a configuration the process may not fully write:     *)
(* some of the files are read-only, or the folder is.                      *)
(***************************************************************************)
ReadOnlyPreferences ==
    { Absent, Garbage,
      dumps(Merge(ValidEntries, Dict1("config_version", PyInt(version)))),
      dumps(Merge(BrokenEntries, Dict1("config_version", PyInt(4)))) }

ReadOnlyColours == {Absent, Garbage, dumps(default_data)}

ReadOnlyDisks ==
    { d \in { [Disk(p, c, Absent, Absent, Absent) EXCEPT !.ro = r, !.locked = l] :
                  p \in ReadOnlyPreferences, c \in ReadOnlyColours,
                  r \in SUBSET JsonPaths, l \in BOOLEAN } :
          /\ \A x \in d.ro : Exists(d, x)
          /\ d.ro # {} \/ d.locked }

InitReadOnly ==
    /\ fs \in ReadOnlyDisks
    /\ last = NoCall
    /\ pre = fs
    /\ nops = 0

NextReadOnly ==
    \/ load_file
    \/ save_file
    \/ set
    \/ get
    \/ exists
    \/ init_config

SpecReadOnly == InitReadOnly /\ [][NextReadOnly]_vars

(***************************************************************************)
(* One run of upgrade_old_pref, statement by statement.  last is the frame *)
(* of the run: val the config_version read, ret the document in the local  *)
(* variable (data, old_data), branch the position reached; pre stays the   *)
(* disk the run started on.                                                *)
(***************************************************************************)
Frame(position, config_version, data, exc) ==
    Call("upgrade_old_pref", preferences, "", "", PyInt(config_version), data, exc,
         position)

At(position) == last.op = "upgrade_old_pref" /\ last.branch = position

Goto(f, position, data, exc) ==
    /\ fs' = f
    /\ last' = Frame(IF exc = "" THEN position ELSE "raised", last.val.v, data, exc)
    /\ UNCHANGED <<pre, nops>>

InitSteps ==
    /\ fs \in InitDisks \ {FreshDisk}
    /\ last = NoCall
    /\ pre = fs
    /\ nops = 0

\* the try block, the up-to-date test and the newer test
upgrade_read_version ==
    /\ last = NoCall
    /\ \E sv \in {StoredVersion(fs)} :
           last' = IF ~sv.ok \/ UpToDate(sv.n) \/ Newer(sv.n)
                   THEN Frame("returned", sv.n, PyNone, "")
                   ELSE Frame("older", sv.n, PyNone, "")
    /\ UNCHANGED <<fs, pre, nops>>

\* v0.3.12: data = load_file(path.preferences)
upgrade_clean_load ==
    /\ At("older")
    /\ NeedsCleanEditor(last.val.v)
    /\ \E l \in {LoadFile(fs, preferences)} : Goto(l.fs, "clean_loaded", l.data, l.exc)

\* v0.3.12: the loop over the editor keys and save_file
upgrade_clean_save ==
    /\ At("clean_loaded")
    /\ \E r \in {SaveFile(fs, preferences, CleanEditor(last.ret))} :
           Goto(r.fs, "cleaned", PyNone, r.exc)

\* the v0.3.12 step is over, or was not needed
Cleaned == At("cleaned") \/ (At("older") /\ ~NeedsCleanEditor(last.val.v))

\* v0.4.0 (dev): the reset
upgrade_reset ==
    /\ Cleaned
    /\ IsDevConfig(last.val.v)
    /\ Goto(StepReset(fs), "returned", PyNone, "")

\* v1.0.0 (dev): old_data = load_file(path.preferences)
upgrade_new_load ==
    /\ Cleaned
    /\ ~IsDevConfig(last.val.v)
    /\ NeedsNewKeys(last.val.v)
    /\ \E l \in {LoadFile(fs, preferences)} : Goto(l.fs, "new_loaded", l.data, l.exc)

\* v1.0.0 (dev): new_data replaces the file, devicestate.json is removed
upgrade_new_save ==
    /\ At("new_loaded")
    /\ \E tv \in {NewTrayValue(last.ret)}, lp \in {OldLivePreview(last.ret)} :
           IF tv.exc # "" THEN Goto(fs, "raised", PyNone, tv.exc)
           ELSE IF lp.exc # "" THEN Goto(fs, "raised", PyNone, lp.exc)
           ELSE \E r \in {SaveFile(Remove(fs, preferences), preferences,
                                   NewData(lp.val, tv.val))} :
                    Goto(RemoveIfExists(r.fs, old_devicestate), "rewritten", PyNone, r.exc)

\* v1.0.0 (dev): the colours
upgrade_colours ==
    /\ At("rewritten")
    /\ \E c \in {StepColours(fs)} : Goto(c.fs, "converted", PyNone, c.exc)

\* Write new version number.
upgrade_stamp ==
    /\ At("converted")
    /\ \E d \in {StepStamp(fs)} : Goto(d.fs, "returned", PyNone, d.exc)

NextSteps ==
    \/ upgrade_read_version
    \/ upgrade_clean_load
    \/ upgrade_clean_save
    \/ upgrade_reset
    \/ upgrade_new_load
    \/ upgrade_new_save
    \/ upgrade_colours
    \/ upgrade_stamp

SpecSteps == InitSteps /\ [][NextSteps]_vars

(***************************************************************************)
(* Vocabulary of the properties.                                           *)
(***************************************************************************)
\* the default entries: <<group, key, expected type, default value>>
DefaultEntries ==
    { <<"colours", "primary", "str", PyStr("#00FF00")>>,
      <<"colours", "secondary", "str", PyStr("#FF0000")>>,
      <<"effects", "live_preview", "bool", PyBool(TRUE)>>,
      <<"general", "landing_tab", "str", PyStr("devices")>>,
      <<"tray", "force_legacy_gtk_status", "bool", PyBool(FALSE)>>,
      <<"tray", "icon", "str", PyStr("ui/img/tray/light/polychromatic.svg")>> }

\* the entry of the document exists and has the expected type
EntryOk(d, e) == Index2(d, e[1], e[2]).val.t = e[3]

\* every default entry exists in the document with the expected type
Conforms(d) == \A e \in DefaultEntries : EntryOk(d, e)

\* the document is a mapping whose default groups, where present, are mappings
Regular(d) ==
    /\ d.t = "dict"
    /\ \A e \in DefaultEntries : e[1] \in DOMAIN d.v => d.v[e[1]].t = "dict"

\* a regular document with the default in place of every default entry that
\* is absent or of another type, and everything else as it was
WithDefaults(d) ==
    LET groups == {e[1] : e \in DefaultEntries}
        group(g) == IF g \in DOMAIN d.v THEN d.v[g] ELSE EmptyDict
        entries(g) == {e \in DefaultEntries : e[1] = g}
        bad(g, k) == \E e \in entries(g) : e[2] = k /\ ~EntryOk(d, e)
        default(g, k) == (CHOOSE e \in entries(g) : e[2] = k)[4]
    IN  PyDict([g \in (DOMAIN d.v) \cup groups |->
            IF g \in groups
            THEN PyDict([k \in (DOMAIN group(g).v) \cup {e[2] : e \in entries(g)} |->
                     IF bad(g, k) THEN default(g, k) ELSE group(g).v[k]])
            ELSE d.v[g]])

\* the document with the current version in it
Current(d) == SetItem(d, "config_version", PyInt(version))

\* the document a parseable file holds
Document(f, p) == loads(f.c[p])

Readable(f, p) == Exists(f, p) /\ Parseable(f.c[p])

\* the integer stored as config_version in the preferences file, -1 if none
VersionOnDisk(f) ==
    LET a == Index(Document(f, preferences), "config_version")
    IN  IF a.val.t = "int" THEN a.val.v ELSE -1

\* the call made last returned (it did not raise)
Returned(op) == last.op = op /\ last.exc = ""

(***************************************************************************)
(* Properties of the migration and of the validation.                      *)
(***************************************************************************)
\* C1: when upgrade_old_pref returns for a preferences file whose stored
\* config_version is an integer below 7 other than 6, the preferences file
\* holds config_version 7.
C1_MigrationReachesCurrent ==
    (/\ Returned("upgrade_old_pref")
     /\ VersionOnDisk(pre) \in 0..(version - 1)
     /\ VersionOnDisk(pre) # 6)
    => /\ Readable(fs, preferences)
       /\ VersionOnDisk(fs) = version

\* C1 witness: a version-4 document with legacy groups went through every step
C1_Witness ==
    /\ Returned("upgrade_old_pref")
    /\ last.branch = "migrated"
    /\ VersionOnDisk(pre) = 4
    /\ Index2(Document(pre, preferences), "tray_icon", "type").exc = ""
    /\ VersionOnDisk(fs) = version

\* C2 as stated: whatever the file held, the document load_file returns for the
\* preferences path has config_version 7.
C2_AlwaysCurrent ==
    (Returned("load_file") /\ last.path = preferences)
    => Index(last.ret, "config_version").val = PyInt(version)

\* C2 amended: the document load_file returns for the preferences path has
\* config_version 7 when the call created, recreated or repaired the file; a
\* readable file whose default entries are all in place is returned as it is,
\* with the config_version it holds, or none.
C2_CurrentWhenSaved ==
    (Returned("load_file") /\ last.path = preferences)
    => IF Readable(pre, preferences) /\ Conforms(Document(pre, preferences))
       THEN /\ last.ret = Document(pre, preferences)
            /\ fs = pre
       ELSE /\ Index(last.ret, "config_version").val = PyInt(version)
            /\ VersionOnDisk(fs) = version

\* C2 witness: a version-4 file with a missing default entry was loaded
C2_Witness ==
    /\ Returned("load_file") /\ last.path = preferences
    /\ VersionOnDisk(pre) = 4
    /\ ~Conforms(Document(pre, preferences))
    /\ Index(last.ret, "config_version").val = PyInt(version)

\* C3: upgrade_old_pref leaves every file as it was when the preferences file
\* holds a config_version above 7.
C3_NewerUntouched ==
    (last.op = "upgrade_old_pref" /\ VersionOnDisk(pre) > version)
    => /\ last.exc = ""
       /\ fs = pre

\* C3 witness: the pass met a version-8 file beside colours and a device state
C3_Witness ==
    /\ Returned("upgrade_old_pref")
    /\ last.branch = "newer"
    /\ VersionOnDisk(pre) = version + 1
    /\ Readable(pre, colours)
    /\ Exists(pre, old_devicestate)

\* C4 as stated: a preferences file with a config_version above 7 still has
\* that config_version, and no default entry it lacked, after
\* start_initalization and after a later get, set or exists.
C4_NewerNeverWritten ==
    (/\ last.op \in {"start_initalization", "get", "set", "exists"}
     /\ last.path = preferences
     /\ VersionOnDisk(pre) > version)
    => /\ VersionOnDisk(fs) = VersionOnDisk(pre)
       /\ \A e \in DefaultEntries :
              Index2(Document(pre, preferences), e[1], e[2]).exc # ""
                  => Index2(Document(fs, preferences), e[1], e[2]).exc # ""

\* C5: after load_file returns for a parseable preferences file, each default
\* entry has the expected type in the returned document and in the file, and
\* holds its default where it was absent or of another type.
C5_DefaultsInPlace ==
    (Returned("load_file") /\ last.path = preferences /\ Readable(pre, preferences))
    => /\ Conforms(last.ret)
       /\ Readable(fs, preferences)
       /\ Conforms(Document(fs, preferences))
       /\ \A e \in DefaultEntries :
              ~EntryOk(Document(pre, preferences), e)
                  => /\ Index2(last.ret, e[1], e[2]).val = e[4]
                     /\ Index2(Document(fs, preferences), e[1], e[2]).val = e[4]

\* C5 witness: a file with a missing group, a missing key and a wrong type
C5_Witness ==
    /\ Returned("load_file") /\ last.path = preferences
    /\ Readable(pre, preferences)
    /\ Index(Document(pre, preferences), "general").exc = "KeyError"
    /\ Index2(Document(pre, preferences), "effects", "live_preview").exc = "KeyError"
    /\ Index2(Document(pre, preferences), "tray", "icon").val.t = "bool"
    /\ Conforms(last.ret)

(***************************************************************************)
(* Properties of set, get, save_file and load_file.  What a second call    *)
(* would return is what the operation yields on the disk the first left.   *)
(***************************************************************************)
\* the value get is to return for a value passed to set
Expected(value) ==
    CASE value = PyStr("true")  -> PyBool(TRUE)
      [] value = PyStr("false") -> PyBool(FALSE)
      [] OTHER -> value

\* the default entries at the coordinates of the call made last
EntriesAt ==
    {e \in DefaultEntries : last.path = preferences /\ e[1] = last.g /\ e[2] = last.k}

\* the group of the call made last was absent from the document, or a mapping
\* that save_file does not overwrite
GroupTakesItems ==
    /\ ~(last.path = preferences /\ last.g = "config_version")
    /\ \A l \in {LoadFile(pre, last.path)} :
           /\ l.exc = ""
           /\ l.data.t = "dict"
           /\ last.g \in DOMAIN l.data.v => l.data.v[last.g].t = "dict"

\* C6 as stated: get returns the value set just before on the same path, the
\* strings "true" and "false" as booleans.
C6_SetThenGet ==
    Returned("set")
    => \A r \in {Get(fs, last.g, last.k, PyStr(""), last.path)} :
           /\ r.exc = ""
           /\ r.ret = Expected(last.val)

\* C6 amended: where the group is absent or a mapping (and is not the
\* config_version of the preferences file), get returns the value set just
\* before, the strings "true" and "false" as booleans, unless the coordinates
\* are a default entry of the preferences file and the value is not of its
\* type: then get returns the default value of the entry.
C6_SetThenGetValidated ==
    (Returned("set") /\ GroupTakesItems)
    => \A r \in {Get(fs, last.g, last.k, PyStr(""), last.path)} :
           /\ r.exc = ""
           /\ r.ret = IF \E e \in EntriesAt : Expected(last.val).t # e[3]
                      THEN (CHOOSE e \in EntriesAt : TRUE)[4]
                      ELSE Expected(last.val)

\* C6 witness: set("tray", "icon", "true") was called and get returns the
\* default icon
C6_Witness ==
    /\ Returned("set") /\ GroupTakesItems
    /\ last.path = preferences /\ last.g = "tray" /\ last.k = "icon"
    /\ last.val = PyStr("true")
    /\ Get(fs, "tray", "icon", PyStr(""), preferences).ret
           = PyStr("ui/img/tray/light/polychromatic.svg")

\* C7 as stated: load_file returns the document save_file has just written to
\* the path, but for the config_version of the preferences file.
C7_SaveThenLoad ==
    (Returned("save_file") /\ last.ret = PyBool(TRUE))
    => \A r \in {LoadFile(fs, last.path)} :
           /\ r.exc = ""
           /\ IF last.path = preferences
              THEN DelItem(r.data, "config_version") = DelItem(last.val, "config_version")
              ELSE r.data = last.val

\* C7 amended: load_file returns the document save_file has just written to
\* the colours path; for the preferences path it returns that document with
\* config_version 7 and with the default in place of every default entry
\* that is absent or of another type.
C7_SaveThenLoadValidated ==
    (/\ Returned("save_file") /\ last.ret = PyBool(TRUE)
     /\ last.path = preferences => Regular(last.val))
    => \A r \in {LoadFile(fs, last.path)} :
           /\ r.exc = ""
           /\ r.data = IF last.path = preferences
                       THEN Current(WithDefaults(last.val))
                       ELSE last.val

\* C7 witness: the empty document was saved to the preferences path and the
\* load returns the six defaults
C7_Witness ==
    /\ Returned("save_file") /\ last.ret = PyBool(TRUE)
    /\ last.path = preferences /\ last.val = EmptyDict
    /\ Document(fs, preferences) = Current(EmptyDict)
    /\ LoadFile(fs, preferences).data = Current(WithDefaults(EmptyDict))

\* the call made last was load_file on a file that existed and did not parse
LoadedUnparsable ==
    /\ last.op = "load_file"
    /\ Exists(pre, last.path)
    /\ ~Parseable(pre.c[last.path])

\* C8 as stated: load_file on an unparsable file does not raise, returns an
\* empty document, leaves the old content at the .bak path and an empty
\* document (with at most the config_version) at the path.
C8_RecoversEmpty ==
    LoadedUnparsable
    => /\ last.exc = ""
       /\ last.ret = EmptyDict
       /\ fs.c[Bak(last.path)] = pre.c[last.path]
       /\ Readable(fs, last.path)
       /\ Document(fs, last.path) \in {EmptyDict, Current(EmptyDict)}

\* C8 amended: load_file on an unparsable file does not raise and leaves the
\* old content at the .bak path; for the colours path it returns an empty
\* document and the file holds one, for the preferences path it returns the
\* six defaults and config_version 7 and the file holds that document.
C8_RecoversDefaults ==
    LoadedUnparsable
    => /\ last.exc = ""
       /\ fs.c[Bak(last.path)] = pre.c[last.path]
       /\ last.ret = IF last.path = preferences
                     THEN Current(WithDefaults(EmptyDict))
                     ELSE EmptyDict
       /\ fs.c[last.path] = dumps(last.ret)

\* C8 witness: an unparsable preferences file was loaded while an earlier
\* backup was there
C8_Witness ==
    /\ LoadedUnparsable /\ last.path = preferences
    /\ Exists(pre, Bak(preferences))
    /\ pre.c[Bak(preferences)] # pre.c[preferences]
    /\ fs.c[Bak(preferences)] = pre.c[preferences]
    /\ Conforms(last.ret)

\* C9: a second load_file on the preferences path returns the document the
\* first returned and leaves the disk as the first left it.
C9_SecondLoadSame ==
    (Returned("load_file") /\ last.path = preferences)
    => \A r \in {LoadFile(fs, preferences)} :
           /\ r.exc = ""
           /\ r.data = last.ret
           /\ r.fs = fs

\* C9 witness: the first load repaired a readable file
C9_Witness ==
    /\ Returned("load_file") /\ last.path = preferences
    /\ Readable(pre, preferences)
    /\ ~Conforms(Document(pre, preferences))
    /\ fs # pre
    /\ LoadFile(fs, preferences).fs = fs

\* C10: when upgrade_old_pref meets config_version 6 it returns with the
\* preferences, colours and device state files gone, nothing else written
\* (no backup made, no file created) and no version stored.
C10_DevConfigReset ==
    (last.op = "upgrade_old_pref" /\ VersionOnDisk(pre) = 6)
    => /\ last.exc = ""
       /\ last.branch = "reset"
       /\ \A p \in {preferences, colours, old_devicestate} : ~Exists(fs, p)
       /\ \A p \in {Bak(preferences), Bak(colours)} : fs.c[p] = pre.c[p]

\* C10 witness: a version-6 file with legacy groups beside unparsable colours
\* and a device state
C10_Witness ==
    /\ Returned("upgrade_old_pref")
    /\ VersionOnDisk(pre) = 6
    /\ Index(Document(pre, preferences), "tray_icon").exc = ""
    /\ Exists(pre, colours) /\ ~Parseable(pre.c[colours])
    /\ Exists(pre, old_devicestate)
    /\ ~Exists(fs, preferences)

(***************************************************************************)
(* Properties of the migrated document.                                    *)
(***************************************************************************)
\* upgrade_old_pref returned for a stored version below 7 other than 6
Migrated ==
    /\ Returned("upgrade_old_pref")
    /\ VersionOnDisk(pre) \in 0..(version - 1)
    /\ VersionOnDisk(pre) # 6

\* the legacy editor.live_preview as the v0.3.12 step leaves it: a string is
\* made a boolean when the stored version is below 5
LegacyLivePreview ==
    LET a == Index2(Document(pre, preferences), "editor", "live_preview")
    IN  IF a.exc # "" THEN PyBool(FALSE)
        ELSE IF a.val.t = "str" /\ VersionOnDisk(pre) < 5
             THEN PyBool(a.val.v \in {"true", "True"})
             ELSE a.val

\* the entries of the migrated document that do not depend on a legacy value
FixedNewEntries ==
    /\ Index2(Document(fs, preferences), "colours", "primary").val = PyStr("#00FF00")
    /\ Index2(Document(fs, preferences), "colours", "secondary").val = PyStr("#00FFFF")
    /\ Index2(Document(fs, preferences), "tray", "force_legacy_gtk_status").val
           = PyBool(FALSE)
    /\ Index(Document(pre, preferences), "tray_icon").exc = "KeyError"
           => Index2(Document(fs, preferences), "tray", "icon").val = PyStr("")

\* C11 as stated: the migrated document has the fixed new entries, and
\* effects.live_preview is the legacy editor.live_preview (made a boolean by
\* the v0.3.12 step below version 5), or false when that key is absent.
C11_MigratedShape ==
    Migrated
    => /\ FixedNewEntries
       /\ Index2(Document(fs, preferences), "effects", "live_preview").val
              = LegacyLivePreview

\* C11 amended: the migrated document has the fixed new entries, and
\* effects.live_preview is the legacy editor.live_preview (made a boolean by
\* the v0.3.12 step below version 5) when that is a boolean, false when the
\* key is absent, and the default true when the legacy value is no boolean.
C11_MigratedShapeValidated ==
    Migrated
    => /\ FixedNewEntries
       /\ Index2(Document(fs, preferences), "effects", "live_preview").val
              = IF LegacyLivePreview.t = "bool" THEN LegacyLivePreview ELSE PyBool(TRUE)

\* C11 witness: {"editor": {"live_preview": "true"}, "config_version": 4}
\* was migrated and effects.live_preview is true
C11_Witness ==
    /\ Migrated
    /\ Document(pre, preferences)
           = Dict2("editor", Dict1("live_preview", PyStr("true")),
                   "config_version", PyInt(4))
    /\ Index2(Document(fs, preferences), "effects", "live_preview").val = PyBool(TRUE)
    /\ Index2(Document(fs, preferences), "tray", "icon").val = PyStr("")

(***************************************************************************)
(* Properties of save_file, exists and get.                                *)
(***************************************************************************)
\* the process can neither write the file at the path nor create it
NotWritable(f, p) ==
    \/ Exists(f, p) /\ ~Writable(f, p)
    \/ ~Exists(f, p) /\ ~CanCreate(f, p)

\* C12 as stated: save_file of a document on a target that is not writable,
\* existing or not, returns false, leaves the file as it was and does not
\* raise.
C12_UnwritableReturnsFalse ==
    (/\ last.op = "save_file"
     /\ NotWritable(pre, last.path)
     /\ last.path = preferences => last.val.t = "dict")
    => /\ last.exc = ""
       /\ last.ret = PyBool(FALSE)
       /\ fs.c[last.path] = pre.c[last.path]

\* the document the call made last found at its path
Found == Document(pre, last.path)

\* the document load_file makes of the one found: on the preferences path a
\* document that lacks a default entry, or has one of another type, gets the
\* defaults and the current version; any other document is taken as it is
Loaded ==
    IF last.path = preferences /\ ~Conforms(Found)
    THEN Current(WithDefaults(Found))
    ELSE Found

\* C13 as stated: for a parseable file exists does not raise, and returns true
\* exactly when the group and the key are in the document at the path.
C13_ExistsIffPresent ==
    (last.op = "exists" /\ Readable(pre, last.path))
    => /\ last.exc = ""
       /\ last.ret = PyBool(Index2(Found, last.g, last.k).exc = "")

\* What exists does: for a parseable file, exists on the preferences path
\* raises TypeError when the document, or a default group in it, is no
\* mapping; otherwise exists does not raise and returns true exactly when the
\* group and the key are in the document as load_file returns it, which on
\* the preferences path holds every default entry.
ExistsIffLoaded ==
    (last.op = "exists" /\ Readable(pre, last.path))
    => IF last.path = preferences /\ ~Regular(Found)
       THEN last.exc = "TypeError"
       ELSE /\ last.exc = ""
            /\ last.ret = PyBool(Index2(Loaded, last.g, last.k).exc = "")

\* C14 as stated: for a parseable file get fails when the group or the key is
\* not in the document at the path, and returns document[group][key] when
\* both are.
C14_GetFailsIfAbsent ==
    (last.op = "get" /\ Readable(pre, last.path))
    => \A a \in {Index2(Found, last.g, last.k)} :
           IF a.exc = ""
           THEN last.exc = "" /\ last.ret = a.val
           ELSE last.exc \in {"KeyError", "TypeError"}

\* C14 amended: for a parseable file, get on the preferences path raises
\* TypeError when the document, or a default group in it, is no mapping;
\* otherwise get looks the group and the key up in the document as
\* load_file returns it (on the preferences path: with every default entry
\* in place), returns the value when both are there, raises KeyError when
\* one is not, TypeError when the group is no mapping, and never returns
\* the supplied default.
C14_GetFromLoaded ==
    (last.op = "get" /\ Readable(pre, last.path))
    => IF last.path = preferences /\ ~Regular(Found)
       THEN last.exc = "TypeError"
       ELSE \A a \in {Index2(Loaded, last.g, last.k)} :
                /\ last.exc = a.exc
                /\ a.exc = "" => last.ret = a.val

\* C14 witness: get("tray", "icon") returned the default icon for a
\* preferences file without a tray group
C14_Witness ==
    /\ Returned("get") /\ last.path = preferences
    /\ Readable(pre, preferences)
    /\ last.g = "tray" /\ last.k = "icon"
    /\ Index(Found, "tray").exc = "KeyError"
    /\ last.ret = PyStr("ui/img/tray/light/polychromatic.svg")

(***************************************************************************)
(* Properties of the colours and of the steps of the migration.            *)
(***************************************************************************)
\* the legacy colours a migration converts: a mapping other than the fixed
\* palette
LegacyColours ==
    /\ Readable(pre, colours)
    /\ Document(pre, colours).t = "dict"
    /\ Document(pre, colours) # old_colour_json

\* the ids of a legacy mapping by ascending numeric value
NumericIds(old_colours) == SelectSeq(DecimalStrings, LAMBDA k : k \in DOMAIN old_colours.v)

\* C15 as stated: the colours file written from a legacy mapping is the list
\* of one {name, hex} record per entry, by ascending numeric value of the ids.
C15_NumericOrder ==
    (Migrated /\ LegacyColours)
    => \A ids \in {NumericIds(Document(pre, colours))} :
           Document(fs, colours)
               = PyList([i \in DOMAIN ids |->
                     Dict2("name", Document(pre, colours).v[ids[i]].v["name"],
                           "hex", RgbToHex(Document(pre, colours).v[ids[i]].v["col"]))])

\* C16: a colours file in list form is left as it is by upgrade_old_pref for
\* a stored version below 7 other than 6.
C16_ListColoursUntouched ==
    (/\ last.op = "upgrade_old_pref"
     /\ VersionOnDisk(pre) \in 0..(version - 1)
     /\ VersionOnDisk(pre) # 6
     /\ Readable(pre, colours)
     /\ Document(pre, colours).t = "list")
    => fs.c[colours] = pre.c[colours]

\* C16 witness: a version-4 configuration with a two-entry list of colours
\* was migrated
C16_Witness ==
    /\ Migrated
    /\ last.branch = "migrated"
    /\ VersionOnDisk(pre) = 4
    /\ Document(pre, colours).t = "list"
    /\ Len(Document(pre, colours).v) = 2
    /\ fs.c[colours] = pre.c[colours]
    /\ fs.c[preferences] # pre.c[preferences]

\* the run of upgrade_old_pref has a migration step still to apply
StepsPending ==
    \/ At("older") \/ At("clean_loaded") \/ At("cleaned")
    \/ At("new_loaded") \/ At("rewritten")

\* the run of upgrade_old_pref is over
RunOver == At("returned") \/ At("raised")

\* the statement-by-statement run ends on the disk the whole call ends on
StepsAgreeWithCall ==
    RunOver => \A u \in {UpgradeOldPref(pre)} : fs = u.fs /\ last.exc = u.exc

\* C17 as stated: while a run of upgrade_old_pref has a migration step still
\* to apply, the preferences file does not hold config_version 7.
C17_StampedLast == StepsPending => VersionOnDisk(fs) # version

\* C18: after upgrade_old_pref returns for a stored version below 7 other
\* than 6, the top-level keys of the preferences file are exactly colours,
\* effects, general, tray and config_version.
C18_OldKeysDropped ==
    Migrated
    => /\ Readable(fs, preferences)
       /\ Document(fs, preferences).t = "dict"
       /\ DOMAIN Document(fs, preferences).v
              = {"colours", "effects", "general", "tray", "config_version"}

\* C18 witness: a version-5 document with the legacy groups editor and
\* tray_icon was migrated
C18_Witness ==
    /\ Migrated
    /\ VersionOnDisk(pre) = 5
    /\ {"editor", "tray_icon"} \subseteq DOMAIN Document(pre, preferences).v
    /\ "editor" \notin DOMAIN Document(fs, preferences).v
    /\ "general" \in DOMAIN Document(fs, preferences).v

(***************************************************************************)
(* Properties of start_initalization.                                      *)
(***************************************************************************)
\* C19: when start_initalization returns, the preferences file exists and
\* holds every default entry with a value of the expected type.
C19_InitializedWithDefaults ==
    Returned("start_initalization")
    => /\ Readable(fs, preferences)
       /\ Conforms(Document(fs, preferences))

\* C19 witness: start_initalization met a version-6 file, which the migration
\* removes, and left the defaults
C19_Witness ==
    /\ Returned("start_initalization")
    /\ VersionOnDisk(pre) = 6
    /\ Conforms(Document(fs, preferences))
    /\ VersionOnDisk(fs) = version

\* C20 as stated: a second start_initalization leaves every file as the
\* first left it, from whatever disk the first started and however it ended.
C20_TwiceAsOnce ==
    last.op = "start_initalization"
    => \A r \in {StartInitalization(fs)} : r.fs = fs

\* For a first start_initalization that returned, the second returns as well
\* and leaves every file as the first left it.
SecondStartSameAfterReturn ==
    Returned("start_initalization")
    => \A r \in {StartInitalization(fs)} :
           /\ r.exc = ""
           /\ r.fs = fs

====
